---- MODULE Spec2Model ----
(***************************************************************************)
(* A model of src/econometrics.py: the RiskMetrics recursive variance      *)
(* (risk_metrics_variance) and the two Value-at-Risk estimators            *)
(* (var_historical_simulation, var_weighted_historical_simulation).        *)
(*                                                                         *)
(* Numbers.  A float is either NaN, written <<>>, or a defined value.      *)
(*   - a return is <<r>>, r an integer number of return units;             *)
(*   - a variance is the exact fraction <<num, den>> (den > 0) of squared  *)
(*     return units;                                                       *)
(*   - a VaR is <<v>>, v an integer number of 1/ConfDen return units, so   *)
(*     that the linear interpolation of the quantile stays exact;          *)
(*   - confidence is the fraction confidence/ConfDen, and a weight is the  *)
(*     fraction weights[k]/wden.                                           *)
(* Arithmetic is exact: the rounding of IEEE doubles is not modelled.      *)
(* Positions are 0-based as in the source; At(s, i) reads position i.      *)
(***************************************************************************)
EXTENDS Integers, Sequences, FiniteSets

VARIABLES
    pc,          \* which call is running and where it stands
    returns,     \* risk_metrics_variance: the input series
    variance,    \* risk_metrics_variance: the output series being filled
    i,           \* risk_metrics_variance: the loop index of line 72
    outcome,     \* "running", "returned" or "raised" (an exception left the call)
    rets,        \* VaR: the return series; its index is the dates 1..Len(rets)
    start_date,  \* VaR: first date of the evaluation range
    end_date,    \* VaR: last date of the evaluation range (inclusive)
    m,           \* VaR: number of past observations
    weights,     \* weighted VaR: numerators of the m weights, oldest first
    wden,        \* weighted VaR: the common denominator of the weights
    confidence,  \* VaR: numerator of the confidence level, over ConfDen
    days,        \* VaR: the dates the loop of line 102 / 134 iterates over
    k,           \* VaR: how many of `days` the loop has handled
    var          \* VaR: the output series, a sequence of <<date, value>>

vars == <<pc, returns, variance, i, outcome, rets, start_date, end_date, m,
          weights, wden, confidence, days, k, var>>

rmVars == <<returns, variance, i>>
varVars == <<rets, start_date, end_date, m, weights, wden, confidence, days, k, var>>

----------------------------------------------------------------------------
(* Bounds of the model. *)

\* longest input series of risk_metrics_variance
MaxN == 3
\* longest return series of the VaR functions
MaxLen == 4
\* largest window size m
MaxM == 3
\* the values a defined return takes, in return units
RetVals == {-1, 0, 1}
\* the values a defined return takes in the calls of the weighted VaR
WeightedRetVals == {-1, 1}
\* the numerators a weight takes
WeightVals == {0, 1}
\* the confidence levels of the model are confidence/ConfDen for confidence in
\* 1..ConfDen-1
ConfDen == 3

----------------------------------------------------------------------------
(* Floats. *)

NaN == <<>>

IsNaN(x) == x = NaN

At(s, idx) == s[idx + 1]

RECURSIVE SumSeq(_)
SumSeq(s) == IF s = <<>> THEN 0 ELSE Head(s) + SumSeq(Tail(s))

\* Series.dropna: the defined values of a series of returns, as integers
DropNa(s) ==
    LET d == SelectSeq(s, LAMBDA x : ~IsNaN(x))
    IN  [j \in 1..Len(d) |-> d[j][1]]

\* Series.var(): the sample variance (ddof = 1) of the defined values, the mean
\* first and then the squared deviations from it; NaN with fewer than two of them
SeriesVar(s) ==
    LET xs == DropNa(s)
        cnt == Len(xs)
        tot == SumSeq(xs)
        \* x - mean = (cnt*x - tot)/cnt
        dev2 == [j \in 1..cnt |-> (cnt * xs[j] - tot) * (cnt * xs[j] - tot)]
    IN  IF cnt < 2 THEN NaN ELSE <<SumSeq(dev2), cnt * cnt * (cnt - 1)>>

\* the mutant of RiskMetricsStep: the return of day i instead of day i-1
RiskMetricsStepCurrentDay(v, r, idx) ==
    IF IsNaN(At(v, idx - 1)) \/ IsNaN(At(r, idx))
    THEN NaN
    ELSE <<94 * At(v, idx - 1)[1] + 6 * At(r, idx)[1] * At(r, idx)[1] * At(v, idx - 1)[2],
           100 * At(v, idx - 1)[2]>>

\* line 73: 0.94 * variance[i - 1] + 0.06 * returns[i - 1] ** 2
RiskMetricsStep(v, r, idx) ==
    IF IsNaN(At(v, idx - 1)) \/ IsNaN(At(r, idx - 1))
    THEN NaN
    ELSE <<94 * At(v, idx - 1)[1]
             + 6 * At(r, idx - 1)[1] * At(r, idx - 1)[1] * At(v, idx - 1)[2],
           100 * At(v, idx - 1)[2]>>

----------------------------------------------------------------------------
(* risk_metrics_variance *)

\* the return series the model calls with: only the first return may be
\* undefined (a return series derived from prices)
ReturnSeries(maxLen, vals) ==
    UNION {
        { s \in [1..n -> {NaN} \cup {<<r>> : r \in vals}] :
            \A j \in 2..n : ~IsNaN(s[j]) } : n \in 0..maxLen }

IdleVaR ==
    /\ rets = <<>>
    /\ start_date = 1
    /\ end_date = 1
    /\ m = 1
    /\ weights = <<1>>
    /\ wden = 1
    /\ confidence = 1
    /\ days = <<>>
    /\ k = 0
    /\ var = <<>>

InitRM ==
    /\ pc = "rm_start"
    /\ returns \in ReturnSeries(MaxN, RetVals)
    /\ variance = <<>>
    /\ i = 0
    /\ outcome = "running"
    /\ IdleVaR

\* lines 62-70, reading returns[0] of an empty series: the lookup raises
RMSeedEmpty ==
    /\ pc = "rm_start"
    /\ Len(returns) = 0
    /\ pc' = "rm_done"
    /\ outcome' = "raised"
    /\ UNCHANGED <<rmVars, varVars>>

\* lines 62-63 and 68-70: the first return is defined
RMSeedDefined ==
    /\ pc = "rm_start"
    /\ Len(returns) > 0
    /\ ~IsNaN(At(returns, 0))
    /\ variance' = [j \in 1..Len(returns) |->
                       IF j = 1 THEN SeriesVar(returns) ELSE NaN]
    /\ i' = 1
    /\ pc' = "rm_loop"
    /\ UNCHANGED <<returns, outcome, varVars>>

\* lines 62-67: the first return is NaN and the series has a position 1
RMSeedNaN ==
    /\ pc = "rm_start"
    /\ Len(returns) > 1
    /\ IsNaN(At(returns, 0))
    /\ variance' = [j \in 1..Len(returns) |->
                       IF j = 2 THEN SeriesVar(returns) ELSE NaN]
    /\ i' = 2
    /\ pc' = "rm_loop"
    /\ UNCHANGED <<returns, outcome, varVars>>

\* lines 62-67 on the one-element series [NaN]: variance[1] = ... names a
\* position the series does not have. On an integer index the assignment
\* enlarges the series by the label 1; on any other index it is positional and
\* raises IndexError.
RMSeedNaNShort ==
    /\ pc = "rm_start"
    /\ Len(returns) = 1
    /\ IsNaN(At(returns, 0))
    /\ \/ /\ variance' = <<NaN, SeriesVar(returns)>>
          /\ i' = 2
          /\ pc' = "rm_loop"
          /\ UNCHANGED outcome
       \/ /\ variance' = <<NaN>>
          /\ pc' = "rm_done"
          /\ outcome' = "raised"
          /\ UNCHANGED i
    /\ UNCHANGED <<returns, varVars>>

\* lines 72-73: one iteration of the loop
RMLoop ==
    /\ pc = "rm_loop"
    /\ i < Len(returns)
    /\ variance' = [variance EXCEPT ![i + 1] = RiskMetricsStep(variance, returns, i)]
    /\ i' = i + 1
    /\ UNCHANGED <<pc, returns, outcome, varVars>>

\* lines 72 and 75: the loop is over, the series is returned
RMReturn ==
    /\ pc = "rm_loop"
    /\ i >= Len(returns)
    /\ pc' = "rm_done"
    /\ outcome' = "returned"
    /\ UNCHANGED <<rmVars, varVars>>

NextRM ==
    \/ RMSeedEmpty
    \/ RMSeedDefined
    \/ RMSeedNaN
    \/ RMSeedNaNShort
    \/ RMLoop
    \/ RMReturn

SpecRM == InitRM /\ [][NextRM]_vars

----------------------------------------------------------------------------
(* What the two VaR functions share. *)

Max(a, b) == IF a >= b THEN a ELSE b

Min(a, b) == IF a <= b THEN a ELSE b

\* rets[start_date: end_date].index: the label slice of the ascending index
\* 1..Len(r), both ends included, the dates in ascending order
EvalDays(r, first, last) ==
    LET lo == Max(first, 1)
        hi == Min(last, Len(r))
    IN  [j \in 1..Max(hi - lo + 1, 0) |-> lo + j - 1]

\* rets.index.get_loc(day): the 0-based position of the date
GetLoc(day) == day - 1

\* s.iloc[from: to], a Python slice: a negative bound counts from the end, and
\* both bounds are clipped to the series
ILoc(s, from, to) ==
    LET clip(x) == IF x < 0 THEN Max(Len(s) + x, 0) ELSE Min(x, Len(s))
        lo == clip(from)
        hi == clip(to)
    IN  IF lo >= hi THEN <<>> ELSE SubSeq(s, lo + 1, hi)

\* the mutant of Window: the m returns up to and including the day's own
WindowWithToday(r, day_idx, size) == ILoc(r, day_idx - size + 1, day_idx + 1)

\* lines 104 and 136: rets.iloc[day_idx - m: day_idx]
Window(r, day_idx, size) == ILoc(r, day_idx - size, day_idx)

\* -x on a float
Neg(x) == IF IsNaN(x) THEN NaN ELSE <<-x[1]>>

\* a return in the units of a VaR, 1/ConfDen return units
Scaled(x) == IF IsNaN(x) THEN NaN ELSE <<ConfDen * x[1]>>

\* var[day] = value on the output series: an entry of that date is overwritten,
\* a new date is appended
SetItem(v, day, value) ==
    IF \E j \in 1..Len(v) : v[j][1] = day
    THEN [j \in 1..Len(v) |-> IF v[j][1] = day THEN <<day, value>> ELSE v[j]]
    ELSE Append(v, <<day, value>>)

----------------------------------------------------------------------------
(* var_historical_simulation *)

\* a sequence of integers with x put before the first element greater than it
RECURSIVE Insert(_, _)
Insert(x, s) ==
    IF s = <<>> THEN <<x>>
    ELSE IF x <= Head(s) THEN <<x>> \o s
    ELSE <<Head(s)>> \o Insert(x, Tail(s))

RECURSIVE SortAsc(_)
SortAsc(s) == IF s = <<>> THEN <<>> ELSE Insert(Head(s), SortAsc(Tail(s)))

\* Series.quantile(q/ConfDen), interpolation='linear': the NaN are dropped, the
\* rest sorted, and the value at the rank q/ConfDen * (count - 1) is interpolated
\* between the two order statistics around it. In 1/ConfDen return units.
Quantile(s, q) ==
    LET xs == SortAsc(DropNa(s))
        rank == q * (Len(xs) - 1)
        lo == rank \div ConfDen
        frac == rank % ConfDen
    IN  IF Len(xs) = 0 THEN NaN
        ELSE IF frac = 0 THEN <<ConfDen * xs[lo + 1]>>
        ELSE <<ConfDen * xs[lo + 1] + frac * (xs[lo + 2] - xs[lo + 1])>>

\* the mutant of HistoricalDayVar: the quantile at confidence, not 1 - confidence
HistoricalDayVarUpperTail(r, day_idx, size, conf) ==
    Neg(Quantile(Window(r, day_idx, size), conf))

\* line 104: -rets.iloc[day_idx - m: day_idx].quantile(1 - confidence)
HistoricalDayVar(r, day_idx, size, conf) ==
    Neg(Quantile(Window(r, day_idx, size), ConfDen - conf))

\* the evaluation ranges the model calls the VaR functions with: any range of
\* dates, and the empty range that ends the day before it starts
DateRanges == { <<first, last>> \in (1..MaxLen) \X (0..MaxLen) : last >= first - 1 }

IdleRM ==
    /\ returns = <<>>
    /\ variance = <<>>
    /\ i = 0

InitHS ==
    /\ pc = "hs_start"
    /\ outcome = "running"
    /\ rets \in ReturnSeries(MaxLen, RetVals)
    /\ \E range \in DateRanges : start_date = range[1] /\ end_date = range[2]
    /\ m \in 1..MaxM
    /\ confidence \in 1..(ConfDen - 1)
    /\ weights = <<1>>
    /\ wden = 1
    /\ days = <<>>
    /\ k = 0
    /\ var = <<>>
    /\ IdleRM

inputs == <<rets, start_date, end_date, m, weights, wden, confidence>>

\* lines 100 and 102: the empty output series and the days of the range
HSStart ==
    /\ pc = "hs_start"
    /\ var' = <<>>
    /\ days' = EvalDays(rets, start_date, end_date)
    /\ k' = 0
    /\ pc' = "hs_loop"
    /\ UNCHANGED <<outcome, inputs, rmVars>>

\* lines 103-105: one evaluation day
HSDay ==
    /\ pc = "hs_loop"
    /\ k < Len(days)
    /\ LET day == days[k + 1]
           day_idx == GetLoc(day)
           day_var == HistoricalDayVar(rets, day_idx, m, confidence)
       IN  var' = SetItem(var, day, day_var)
    /\ k' = k + 1
    /\ UNCHANGED <<pc, outcome, inputs, days, rmVars>>

\* line 106
HSReturn ==
    /\ pc = "hs_loop"
    /\ k >= Len(days)
    /\ pc' = "hs_done"
    /\ outcome' = "returned"
    /\ UNCHANGED <<varVars, rmVars>>

----------------------------------------------------------------------------
(* var_weighted_historical_simulation *)

\* the mutant of PairUp: the weights paired newest first
PairUpReversed(window, w) ==
    [j \in 1..Max(Len(window), Len(w)) |->
        <<IF j <= Len(window) THEN window[j] ELSE NaN, w[Len(w) + 1 - j]>>]

\* lines 136-137: pd.concat([window.reset_index(drop=True), weights], axis=1),
\* the rows <<ret, weight>> on the union of the two indexes 0.., a row the
\* window does not reach holding ret = NaN. (The model's weights have m entries
\* and the window at most m, so that every row has a weight.)
PairUp(window, w) ==
    [j \in 1..Max(Len(window), Len(w)) |->
        <<IF j <= Len(window) THEN window[j] ELSE NaN, w[j]>>]

\* the rows of `left` that may come first when `left` is sorted by ret ascending
\* with the NaN rows last in their original order: a row of the smallest defined
\* ret, or, when no ret is defined, the earliest row
Firsts(rows, left) ==
    LET defined == { j \in left : ~IsNaN(rows[j][1]) }
    IN  IF defined = {}
        THEN { j \in left : \A t \in left : j <= t }
        ELSE { j \in defined : \A t \in defined : rows[j][1][1] <= rows[t][1][1] }

RECURSIVE OrdersOf(_, _)
OrdersOf(rows, left) ==
    IF left = {} THEN {<<>>}
    ELSE UNION { { <<j>> \o rest : rest \in OrdersOf(rows, left \ {j}) } :
                 j \in Firsts(rows, left) }

\* line 138: sort_values(by='ret'), the default kind='quicksort', which is not
\* stable: every order of the rows of equal ret is a result the sort may give.
\* An order is the sequence of the row numbers, first row first.
SortOrders(rows) == OrdersOf(rows, 1..Len(rows))

\* the rows in the order p
SortValues(rows, p) == [j \in 1..Len(rows) |-> rows[p[j]]]

\* line 140: rets_and_weights['weight'].cumsum(), the numerators
CumSum(rows) == [j \in 1..Len(rows) |-> SumSeq([t \in 1..j |-> rows[t][2]])]

\* the mutant of Reaches: strictly above 1 - confidence
ReachesStrictly(cum, wd, conf) == cum * ConfDen > (ConfDen - conf) * wd

\* line 142: cum_weights[i] >= (1 - confidence), i.e.
\* cum/wd >= (ConfDen - conf)/ConfDen
Reaches(cum, wd, conf) == cum * ConfDen >= (ConfDen - conf) * wd

\* lines 141-144: the positions (0-based) at which the test of line 142 holds
Crossings(rows, wd, conf) ==
    { j \in 0..(Len(rows) - 1) : Reaches(At(CumSum(rows), j), wd, conf) }

SetMin(S) == CHOOSE x \in S : \A y \in S : x <= y

\* the mutant of WeightedScan: the return of the row before the crossing
WeightedScanOffByOne(v, day, rows, wd, conf) ==
    IF Crossings(rows, wd, conf) = {} THEN v
    ELSE SetItem(v, day,
                 Neg(Scaled(At(rows, Max(SetMin(Crossings(rows, wd, conf)) - 1, 0))[1])))

\* lines 141-144: the loop assigns var[day] at the first crossing and breaks;
\* without a crossing it assigns nothing
WeightedScan(v, day, rows, wd, conf) ==
    IF Crossings(rows, wd, conf) = {} THEN v
    ELSE SetItem(v, day, Neg(Scaled(At(rows, SetMin(Crossings(rows, wd, conf)))[1])))

\* the weight vectors the model calls with: numerators in WeightVals, summing
\* to 1 (wden is their sum) or to 1/2 (wden is twice their sum)
WeightDens(w) ==
    IF SumSeq(w) = 0 THEN {1} ELSE {SumSeq(w), 2 * SumSeq(w)}

InitWHS ==
    /\ pc = "whs_start"
    /\ outcome = "running"
    /\ rets \in ReturnSeries(MaxLen, WeightedRetVals)
    /\ \E range \in DateRanges : start_date = range[1] /\ end_date = range[2]
    /\ m \in 1..MaxM
    /\ confidence \in 1..(ConfDen - 1)
    /\ weights \in [1..m -> WeightVals]
    /\ wden \in WeightDens(weights)
    /\ days = <<>>
    /\ k = 0
    /\ var = <<>>
    /\ IdleRM

\* lines 132 and 134: the empty output series and the days of the range
WHSStart ==
    /\ pc = "whs_start"
    /\ var' = <<>>
    /\ days' = EvalDays(rets, start_date, end_date)
    /\ k' = 0
    /\ pc' = "whs_loop"
    /\ UNCHANGED <<outcome, inputs, rmVars>>

\* lines 135-144: one evaluation day, under one of the orders the sort may give
WHSDay ==
    /\ pc = "whs_loop"
    /\ k < Len(days)
    /\ LET day == days[k + 1]
           day_idx == GetLoc(day)
           rets_and_weights == PairUp(Window(rets, day_idx, m), weights)
       IN  \E p \in SortOrders(rets_and_weights) :
               var' = WeightedScan(var, day, SortValues(rets_and_weights, p),
                                   wden, confidence)
    /\ k' = k + 1
    /\ UNCHANGED <<pc, outcome, inputs, days, rmVars>>

\* line 145
WHSReturn ==
    /\ pc = "whs_loop"
    /\ k >= Len(days)
    /\ pc' = "whs_done"
    /\ outcome' = "returned"
    /\ UNCHANGED <<varVars, rmVars>>

InitVaR == InitHS \/ InitWHS

NextVaR ==
    \/ HSStart
    \/ HSDay
    \/ HSReturn
    \/ WHSStart
    \/ WHSDay
    \/ WHSReturn

SpecVaR == InitVaR /\ [][NextVaR]_vars

----------------------------------------------------------------------------
(* Claims about risk_metrics_variance, checked under SpecRM. *)

RECURSIVE Gcd(_, _)
Gcd(a, b) == IF b = 0 THEN a ELSE Gcd(b, a % b)

Abs(x) == IF x < 0 THEN -x ELSE x

\* a fraction in lowest terms
Lowest(f) ==
    LET g == Gcd(Abs(f[1]), f[2])
    IN  <<f[1] \div g, f[2] \div g>>

\* equality of two variances: both undefined, or the same fraction
SameVariance(a, b) ==
    IF IsNaN(a) \/ IsNaN(b) THEN IsNaN(a) /\ IsNaN(b) ELSE Lowest(a) = Lowest(b)

\* the sample variance (n*sum(x^2) - sum(x)^2) / (n*(n-1)) of the defined
\* returns of r, undefined with fewer than two of them
SampleVariance(r) ==
    LET xs == DropNa(r)
        cnt == Len(xs)
        sq == [j \in 1..cnt |-> xs[j] * xs[j]]
    IN  IF cnt < 2 THEN NaN
        ELSE <<cnt * SumSeq(sq) - SumSeq(xs) * SumSeq(xs), cnt * (cnt - 1)>>

\* 0.94*v[idx-1] + 0.06*r[idx-1]^2, undefined when either operand is
Forecast(v, r, idx) ==
    LET prev == At(v, idx - 1)
        ret == At(r, idx - 1)
    IN  IF IsNaN(prev) \/ IsNaN(ret) THEN NaN
        ELSE <<94 * prev[1] + 6 * ret[1] * ret[1] * prev[2], 100 * prev[2]>>

RMDone == pc = "rm_done"

\* C3: on a return series of length n >= 2 the call returns a variance series
\* of length n; with r[0] defined, v[0] is the sample variance of r and
\* v[i] = 0.94*v[i-1] + 0.06*r[i-1]^2 for every i >= 1; with r[0] undefined,
\* v[0] is undefined, v[1] is the sample variance of the defined returns and the
\* same recursion holds for every i >= 2. The return used at index i is that of
\* index i-1.
C3_RiskMetricsRecursion ==
    (RMDone /\ Len(returns) >= 2) =>
        /\ outcome = "returned"
        /\ Len(variance) = Len(returns)
        /\ IF ~IsNaN(At(returns, 0))
           THEN /\ SameVariance(At(variance, 0), SampleVariance(returns))
                /\ \A idx \in 1..(Len(returns) - 1) :
                      SameVariance(At(variance, idx), Forecast(variance, returns, idx))
           ELSE /\ IsNaN(At(variance, 0))
                /\ SameVariance(At(variance, 1), SampleVariance(returns))
                /\ \A idx \in 2..(Len(returns) - 1) :
                      SameVariance(At(variance, idx), Forecast(variance, returns, idx))

\* a returned series of three days whose first return is undefined, seeded at
\* index 1 and moved by the recursion at index 2
C3_Witness ==
    /\ RMDone
    /\ outcome = "returned"
    /\ Len(returns) = 3
    /\ IsNaN(At(returns, 0))
    /\ ~IsNaN(At(variance, 1))
    /\ ~IsNaN(At(variance, 2))
    /\ ~SameVariance(At(variance, 1), At(variance, 2))

\* C6: on a return series of fewer than 2 observations the call fails (with
\* InsufficientData); it returns no empty or one-element variance series and
\* seeds no recursion with an undefined sample variance.
C6_InsufficientData ==
    (RMDone /\ Len(returns) < 2) => outcome = "raised"
----------------------------------------------------------------------------
(* Claims about the two VaR functions, checked under SpecVaR. *)

\* var_historical_simulation has returned its series
InHS == pc = "hs_done" /\ outcome = "returned"

\* var_weighted_historical_simulation has returned its series
InWHS == pc = "whs_done" /\ outcome = "returned"

\* the evaluation days the loop has handled
Handled == { days[n] : n \in 1..k }

HasEntry(v, day) == \E j \in 1..Len(v) : v[j][1] = day

Entry(v, day) == v[CHOOSE j \in 1..Len(v) : v[j][1] = day][2]

\* the position of a date in the return series
Position(day) == day - 1

\* the return at a position of the series, as the claims read it
ReturnAt(pos) == rets[pos + 1]

\* the positions [pos - m, pos) of the window of the day at position pos >= m
WindowPositions(pos) == (pos - m)..(pos - 1)

\* the weight paired with the return at position p of the window of the day at
\* pos: weights[0] with the oldest return, weights[m-1] with the most recent
WeightOf(pos, p) == weights[p - (pos - m) + 1]

\* (1 - confidence) is reached by the weight mass num/wden
ReachesTail(num) == num * ConfDen >= (ConfDen - confidence) * wden

\* the whole weight vector reaches (1 - confidence)
ThresholdReached == ReachesTail(SumSeq(weights))

\* The return of the first row, in ascending order of return, at which the
\* running sum of the weights reaches (1 - confidence), for the day at pos >= m.
\* Rows of equal return are adjacent and weights are not negative, so that row
\* holds the smallest defined return x for which the weights of the returns
\* <= x reach (1 - confidence); when no defined return does, the row reached is
\* one of the undefined returns, which sort last.
TailReturn(pos) ==
    LET defined == { p \in WindowPositions(pos) : ~IsNaN(ReturnAt(p)) }
        mass(x) == SumSeq([t \in 1..m |->
                       LET p == pos - m + t - 1
                       IN  IF p \in defined /\ ReturnAt(p)[1] <= x
                           THEN WeightOf(pos, p) ELSE 0])
        reached == { ReturnAt(p)[1] :
                       p \in { t \in defined : ReachesTail(mass(ReturnAt(t)[1])) } }
    IN  IF reached = {} THEN NaN ELSE <<SetMin(reached)>>

\* C1: for every evaluation day at position i >= m whose cumulative weights
\* reach (1 - confidence), the weighted VaR reported is -return[j], the m returns
\* of [i-m, i) being paired oldest first with weights[0..m-1], the pairs sorted by
\* return ascending, and j the first index of that order whose running sum of
\* weights is >= (1 - confidence).
C1_WeightedVaRIsTailReturn ==
    InWHS =>
        \A day \in Handled :
            (Position(day) >= m /\ ThresholdReached) =>
                /\ HasEntry(var, day)
                /\ Entry(var, day) = Neg(Scaled(TailReturn(Position(day))))

\* a day with a full window of three distinct-weight rows where the row reached
\* is neither the oldest nor the smallest-return row alone
C1_Witness ==
    /\ InWHS
    /\ m = 3
    /\ weights = <<0, 1, 1>>
    /\ wden = 2
    /\ confidence = 1
    /\ \E day \in Handled :
          /\ Position(day) = 3
          /\ ReturnAt(0) = <<-1>>
          /\ ReturnAt(1) = <<1>>
          /\ ReturnAt(2) = <<-1>>
          /\ HasEntry(var, day)
          /\ Entry(var, day) = <<-ConfDen>>
\* the order statistic of 0-based rank r of a sequence of integers: the value x
\* with at most r elements below it and more than r elements not above it
OrderStatistic(xs, r) ==
    CHOOSE x \in { xs[t] : t \in 1..Len(xs) } :
        /\ Cardinality({ t \in 1..Len(xs) : xs[t] < x }) <= r
        /\ Cardinality({ t \in 1..Len(xs) : xs[t] <= x }) > r

\* the quantile at probability (1 - confidence) of the integers xs, interpolated
\* linearly between the order statistics around the rank
\* (1 - confidence)*(Len(xs) - 1); in 1/ConfDen units
TailQuantile(xs) ==
    LET rank == (ConfDen - confidence) * (Len(xs) - 1)
        lo == rank \div ConfDen
        frac == rank % ConfDen
    IN  IF frac = 0 THEN ConfDen * OrderStatistic(xs, lo)
        ELSE (ConfDen - frac) * OrderStatistic(xs, lo)
               + frac * OrderStatistic(xs, lo + 1)

\* the returns at the positions [pos - m, pos), oldest first
WindowReturns(pos) == [t \in 1..m |-> ReturnAt(pos - m + t - 1)]

\* the m returns of the window sorted ascending, an undefined return after
\* every defined one, and the quantile interpolated at the rank
\* (1 - confidence)*(m - 1) of that order: undefined when an order statistic it
\* reads is
TailQuantileOfAll(pos) ==
    LET xs == DropNa(WindowReturns(pos))
        rank == (ConfDen - confidence) * (m - 1)
        lo == rank \div ConfDen
        frac == rank % ConfDen
    IN  IF lo >= Len(xs) \/ (frac # 0 /\ lo + 1 >= Len(xs)) THEN NaN
        ELSE IF frac = 0 THEN <<ConfDen * OrderStatistic(xs, lo)>>
        ELSE <<(ConfDen - frac) * OrderStatistic(xs, lo)
                 + frac * OrderStatistic(xs, lo + 1)>>

\* C2 as stated: for every evaluation day at position i >= m, the historical VaR
\* is the negation of the quantile at (1 - confidence) of exactly the m returns
\* at [i-m, i), the window sorted ascending and interpolated linearly at the rank
\* (1 - confidence)*(m - 1).
C2_QuantileOfExactlyM ==
    InHS =>
        \A day \in Handled :
            Position(day) >= m =>
                /\ HasEntry(var, day)
                /\ Entry(var, day) = Neg(TailQuantileOfAll(Position(day)))

\* C2 as amended: for every evaluation day at position i >= m, the historical
\* VaR is the negation of the quantile at (1 - confidence) of the defined
\* returns among the m at [i-m, i): with n of them defined, they are sorted
\* ascending and interpolated linearly at the rank (1 - confidence)*(n - 1); the
\* VaR is undefined when none is defined. A window without an undefined return
\* has n = m. No return at a position >= i or < i-m is read.
C2_QuantileOfDefined ==
    InHS =>
        \A day \in Handled :
            Position(day) >= m =>
                /\ HasEntry(var, day)
                /\ Entry(var, day) =
                      LET xs == DropNa(WindowReturns(Position(day)))
                      IN  IF Len(xs) = 0 THEN NaN ELSE <<-TailQuantile(xs)>>

\* a day whose window of three defined returns is interpolated strictly
\* between two different order statistics
C2_Witness ==
    /\ InHS
    /\ m = 3
    /\ confidence = 1
    /\ \E day \in Handled :
          /\ Position(day) = 3
          /\ ReturnAt(0) = <<1>>
          /\ ReturnAt(1) = <<-1>>
          /\ ReturnAt(2) = <<0>>
          /\ HasEntry(var, day)
          /\ ~IsNaN(Entry(var, day))
          /\ Entry(var, day)[1] < 0
          /\ Entry(var, day)[1] > -ConfDen
\* C4: whenever the running sum of the sorted weights never reaches
\* (1 - confidence) for an evaluation day, the weighted call fails (with
\* ThresholdNotReached); it returns no series in which that day is missing or
\* holds a default value.
C4_ThresholdNotReached ==
    (pc = "whs_done" /\ Len(days) > 0 /\ ~ThresholdReached) => outcome = "raised"

\* C5: whenever an evaluation day sits at a position i < m, the call (of either
\* VaR function) fails (with WindowUnderflow); it computes no value for that day
\* from an empty, shortened or wrapped-around window.
C5_WindowUnderflow ==
    (/\ pc \in {"hs_done", "whs_done"}
     /\ \E n \in 1..Len(days) : Position(days[n]) < m) => outcome = "raised"

\* the dates of the return series inside [start_date, end_date]
DatesInRange == { d \in 1..Len(rets) : start_date <= d /\ d <= end_date }

\* C9: every series either VaR function returns holds exactly one entry per date
\* of the return series in [start_date, end_date], keyed by that date, in
\* ascending order: no evaluation day is skipped and no other date appears.
C9_OneEntryPerDay ==
    (InHS \/ InWHS) =>
        /\ Len(var) = Cardinality(DatesInRange)
        /\ \A j \in 1..Len(var) : var[j][1] \in DatesInRange
        /\ \A j \in 1..(Len(var) - 1) : var[j][1] < var[j + 1][1]

\* every weight is 1/m
UniformWeights == wden = m /\ \A t \in 1..m : weights[t] = 1

\* the window of the day at pos is full and free of undefined returns
FullWindow(pos) == pos >= m /\ \A p \in WindowPositions(pos) : ~IsNaN(ReturnAt(p))

\* C7 as stated: with the uniform weight vector the weighted VaR of every
\* evaluation day is the historical VaR of the same returns, range, m and
\* confidence. (Stated on the days whose window is full and free of undefined
\* returns, where no other defect of the code is involved.)
C7_UniformIsHistorical ==
    (InWHS /\ UniformWeights) =>
        \A day \in Handled :
            FullWindow(Position(day)) =>
                /\ HasEntry(var, day)
                /\ Entry(var, day) = HistoricalDayVar(rets, GetLoc(day), m, confidence)

\* the least count n of returns with n/m >= (1 - confidence)
TailCount == CHOOSE n \in 1..m :
    /\ n * ConfDen >= (ConfDen - confidence) * m
    /\ (n - 1) * ConfDen < (ConfDen - confidence) * m

\* the order statistics the historical quantile of a full window interpolates
\* between are both x
BracketedBy(pos, x) ==
    LET xs == DropNa(WindowReturns(pos))
        rank == (ConfDen - confidence) * (m - 1)
        lo == rank \div ConfDen
    IN  /\ OrderStatistic(xs, lo) = x
        /\ (rank % ConfDen # 0) => OrderStatistic(xs, lo + 1) = x

\* C7 as amended: with the uniform weight vector, for every evaluation day whose
\* window [i-m, i) is full and free of undefined returns, the weighted VaR is
\* the negation of the n-th smallest return of the window, n the least count
\* with n/m >= (1 - confidence), without interpolation; it is the historical
\* VaR of that day whenever the order statistics around the rank
\* (1 - confidence)*(m - 1) both equal that return.
C7_UniformIsOrderStatistic ==
    (InWHS /\ UniformWeights) =>
        \A day \in Handled :
            FullWindow(Position(day)) =>
                LET x == OrderStatistic(DropNa(WindowReturns(Position(day))),
                                        TailCount - 1)
                IN  /\ HasEntry(var, day)
                    /\ Entry(var, day) = <<-(ConfDen * x)>>
                    /\ BracketedBy(Position(day), x) =>
                          Entry(var, day) =
                              HistoricalDayVar(rets, GetLoc(day), m, confidence)

\* a day under uniform weights whose weighted VaR is an order statistic of its
\* window and differs from the historical VaR of the day
C7_Witness ==
    /\ InWHS
    /\ UniformWeights
    /\ m = 3
    /\ \E day \in Handled :
          /\ FullWindow(Position(day))
          /\ HasEntry(var, day)
          /\ Entry(var, day) # HistoricalDayVar(rets, GetLoc(day), m, confidence)
          /\ \E p \in WindowPositions(Position(day)) :
                Entry(var, day) = Neg(Scaled(ReturnAt(p)))
\* the weighted VaR series of one day at the confidence level conf, under the
\* sort order p of its rows: empty when the threshold is not reached
WeightedDayVar(day, conf, p) ==
    LET rows == PairUp(Window(rets, GetLoc(day), m), weights)
    IN  WeightedScan(<<>>, day, SortValues(rows, p), wden, conf)

\* C8: with the window, m and the weights fixed, for two confidence levels
\* c1 <= c2 at which a VaR is reported (a defined value), the VaR at c2 is
\* greater than or equal to the VaR at c1; for both VaR functions. c1 is the
\* confidence of the call, c2 ranges over the levels above it.
C8_MonotoneInConfidence ==
    \A day \in Handled :
        (HasEntry(var, day) /\ ~IsNaN(Entry(var, day))) =>
            \A c2 \in confidence..(ConfDen - 1) :
                /\ InHS =>
                      LET higher == HistoricalDayVar(rets, GetLoc(day), m, c2)
                      IN  ~IsNaN(higher) => higher[1] >= Entry(var, day)[1]
                /\ InWHS =>
                      \A p \in SortOrders(PairUp(Window(rets, GetLoc(day), m), weights)) :
                          LET higher == WeightedDayVar(day, c2, p)
                          IN  (higher # <<>> /\ ~IsNaN(higher[1][2])) =>
                                  higher[1][2][1] >= Entry(var, day)[1]

\* a historical day with a full window whose VaR is strictly greater at a
\* higher confidence level
C8_Witness ==
    /\ InHS
    /\ \E day \in Handled :
          /\ FullWindow(Position(day))
          /\ HasEntry(var, day)
          /\ ~IsNaN(Entry(var, day))
          /\ \E c2 \in (confidence + 1)..(ConfDen - 1) :
                HistoricalDayVar(rets, GetLoc(day), m, c2)[1] > Entry(var, day)[1]

\* row a of the day's rows comes before row b under a stable ascending sort by
\* return: a smaller return, or an equal return and an earlier row; an
\* undefined return after every defined one
StablyBefore(rows, a, b) ==
    LET x == rows[a][1]
        y == rows[b][1]
    IN  IF IsNaN(x) THEN IsNaN(y) /\ a < b
        ELSE IF IsNaN(y) THEN TRUE
        ELSE x[1] < y[1] \/ (x[1] = y[1] /\ a < b)

\* the rows <<return, weight>> of the day at any position, oldest first, as the
\* claims read them: the returns of the window, then undefined returns up to m
RowsOf(day) ==
    LET window == ILoc(rets, Position(day) - m, Position(day))
    IN  [t \in 1..m |-> <<IF t <= Len(window) THEN window[t] ELSE NaN, weights[t]>>]

\* the row a put into a stably sorted sequence of earlier rows: after every row
\* that is not after it
RECURSIVE InsertRow(_, _, _)
InsertRow(rows, a, order) ==
    IF order = <<>> THEN <<a>>
    ELSE IF StablyBefore(rows, a, Head(order)) THEN <<a>> \o order
    ELSE <<Head(order)>> \o InsertRow(rows, a, Tail(order))

\* the first n rows in stable ascending order of return, as row numbers
RECURSIVE StableOrder(_, _)
StableOrder(rows, n) ==
    IF n = 0 THEN <<>> ELSE InsertRow(rows, n, StableOrder(rows, n - 1))

\* the rows of the day in stable ascending order of return
StableRows(day) ==
    LET rows == RowsOf(day)
        order == StableOrder(rows, m)
    IN  [r \in 1..m |-> rows[order[r]]]

\* the VaR series of the day obtained with the stable sort: -return of the first
\* row whose running sum of weights reaches (1 - confidence), nothing when no
\* running sum does
StableDayVar(day) ==
    LET rows == StableRows(day)
        run(r) == SumSeq([t \in 1..r |-> rows[t][2]])
        hit == { r \in 1..m : ReachesTail(run(r)) }
    IN  IF hit = {} THEN <<>>
        ELSE <<<<day, Neg(Scaled(rows[SetMin(hit)][1]))>>>>

\* C10: the weighted VaR reported for a day is the same for every order in which
\* the sort may place rows of equal return, and equals the value obtained with a
\* stable sort that keeps tied rows in chronological order.
C10_TieOrderIrrelevant ==
    InWHS =>
        \A day \in Handled :
            IF StableDayVar(day) = <<>>
            THEN ~HasEntry(var, day)
            ELSE HasEntry(var, day) /\ Entry(var, day) = StableDayVar(day)[1][2]

\* a day whose rows of equal return carry different weights, with the running
\* sum reaching (1 - confidence) inside the tie
C10_Witness ==
    /\ InWHS
    /\ m = 3
    /\ weights = <<1, 0, 1>>
    /\ wden = 2
    /\ confidence = 1
    /\ \E day \in Handled :
          /\ Position(day) = 3
          /\ ReturnAt(0) = <<1>>
          /\ ReturnAt(1) = <<1>>
          /\ ReturnAt(2) = <<-1>>
          /\ Cardinality(SortOrders(PairUp(Window(rets, GetLoc(day), m), weights))) = 2
          /\ HasEntry(var, day)
          /\ Entry(var, day) = <<-ConfDen>>

====
